---- MODULE Spec2Model ----
(***************************************************************************)
(* Model of the covid dashboard: CovidDataProvider (dataproviders.py),     *)
(* CovidArimaModel (models.py) and CovidDashboardManager                   *)
(* (dashboard_manager.py).                                                 *)
(*                                                                         *)
(* A DataFrame is a record [dtype, rows]: dtype maps each column name to   *)
(* its pandas dtype ("object", "number" or "datetime"), rows is the        *)
(* sequence of rows in frame order.  A row is a function from column names *)
(* to cell values; a missing value (NaN/NaT/None) is a column that is not  *)
(* in the row's DOMAIN.  Timestamps are day ordinals into Calendar.        *)
(***************************************************************************)
EXTENDS Integers, Sequences, FiniteSets, TLC

VARIABLES
    pc,                          \* position of the program
    raw,                         \* the two frames as read from the csv resources
    infections_and_mortalities,  \* CovidDataProvider.infections_and_mortalities
    hospital_admissions,         \* CovidDataProvider.hospital_admissions
    covid_dataset,               \* CovidDataProvider.covid_dataset (shared with the dashboard)
    error,                       \* the exception that ended the build, if any
    arima_dataset,               \* CovidArimaModel.covid_dataset
    selection,                   \* CovidDashboardManager.year/province/show_* fields
    dataset,                     \* a frame handed to the static query methods
    call,                        \* the last call made on the built program
    result                       \* what that call returned or raised

vars == <<pc, raw, infections_and_mortalities, hospital_admissions, covid_dataset,
          error, arima_dataset, selection, dataset, call, result>>

-----------------------------------------------------------------------------
(* Bounds of the model *)

MaxCaseRows == 2
MaxAdmissionRows == 2
MaxDashboardRows == 1
MaxFrameRows == 3
MaxHorizon == 2

-----------------------------------------------------------------------------
(* Values *)

None == [kind |-> "None"]

Range(s) == {s[i] : i \in DOMAIN s}

\* The days the model knows, in calendar order; a Timestamp is an index.
Calendar ==
    << [iso |-> "2020-12-30", year |-> 2020, month |-> "December"],
       [iso |-> "2020-12-31", year |-> 2020, month |-> "December"],
       [iso |-> "2021-01-01", year |-> 2021, month |-> "January"],
       [iso |-> "2021-01-02", year |-> 2021, month |-> "January"],
       [iso |-> "2021-01-03", year |-> 2021, month |-> "January"],
       [iso |-> "2021-01-04", year |-> 2021, month |-> "January"],
       [iso |-> "2021-01-05", year |-> 2021, month |-> "January"],
       [iso |-> "2021-01-06", year |-> 2021, month |-> "January"] >>

\* pd.to_datetime on an ISO date string
to_datetime(s) == CHOOSE d \in DOMAIN Calendar : Calendar[d].iso = s

\* Series.dt.year, Series.dt.strftime('%Y'), Series.dt.strftime('%B')
dt_year(d) == Calendar[d].year
strftime_Y(d) == ToString(Calendar[d].year)
strftime_B(d) == Calendar[d].month

\* Code point order of the strings of the model (Python's str ordering).
Collation ==
    << "", "2020", "2020-12-30", "2020-12-31", "2021", "2021-01-01", "2021-01-02",
       "December", "January", "Limburg", "Limburg gemeente onbekend",
       "Utrecht", "Utrecht city", "Utrecht gemeente onbekend", "x" >>

Rank(s) == CHOOSE i \in DOMAIN Collation : Collation[i] = s

\* str.lower()
Lower ==
    [s \in {"Netherlands", "netherlands", "All provinces", "all provinces",
            "Utrecht", "utrecht", "Limburg", "limburg"} |->
        CASE s \in {"Netherlands", "netherlands"} -> "netherlands"
          [] s \in {"All provinces", "all provinces"} -> "all provinces"
          [] s \in {"Utrecht", "utrecht"} -> "utrecht"
          [] s \in {"Limburg", "limburg"} -> "limburg"]

-----------------------------------------------------------------------------
(* DataFrames *)

Columns(df) == DOMAIN df.dtype

IsNa(row, c) == c \notin DOMAIN row

Frame(dtype, rows) == [kind |-> "DataFrame", dtype |-> dtype, rows |-> rows]

AttributeError(msg) == [kind |-> "AttributeError", msg |-> msg]

IsFrame(v) == v.kind = "DataFrame"

\* A row restricted to some columns; missing cells stay missing.
Restrict(row, cols) == [c \in (DOMAIN row) \cap cols |-> row[c]]

\* count() in place of sum(): the number of cells that are not missing
CountColumn(rows, c) == Len(SelectSeq(rows, LAMBDA r : c \in DOMAIN r))

\* sum(skipna=True, min_count=0) of column c over rows: missing cells count 0
RECURSIVE SumColumn(_, _)
SumColumn(rows, c) ==
    IF rows = << >> THEN 0
    ELSE (IF IsNa(Head(rows), c) THEN 0 ELSE Head(rows)[c]) + SumColumn(Tail(rows), c)

\* value order inside one column: numbers and timestamps by value, strings by code point
ValueLess(dtype, a, b) ==
    IF dtype = "object" THEN Rank(a) < Rank(b) ELSE a < b

\* lexicographic order of two key tuples over the grouping columns
RECURSIVE KeyLess(_, _, _, _)
KeyLess(df, by, k1, k2) ==
    IF by = << >> THEN FALSE
    ELSE LET dt == df.dtype[Head(by)] IN
         IF Head(k1) = Head(k2)
         THEN KeyLess(df, Tail(by), Tail(k1), Tail(k2))
         ELSE ValueLess(dt, Head(k1), Head(k2))

RECURSIVE SortKeys(_, _, _)
SortKeys(df, by, keys) ==
    IF keys = {} THEN << >>
    ELSE LET m == CHOOSE k \in keys : \A o \in keys \ {k} : KeyLess(df, by, k, o)
         IN <<m>> \o SortKeys(df, by, keys \ {m})

KeyOf(row, by) == [i \in DOMAIN by |-> row[by[i]]]

HasKey(row, by) == \A i \in DOMAIN by : ~IsNa(row, by[i])

NumericColumns(df) == {c \in Columns(df) : df.dtype[c] = "number"}

\* DataFrame.groupby(by, as_index=False).sum(numeric_only=True): groups are
\* the key tuples without a missing component (dropna=True), in ascending
\* key order (sort=True); numeric non-key columns are summed, others dropped.
groupby_sum(df, by) ==
    LET keycols == Range(by)
        valcols == NumericColumns(df) \ keycols
        keyed   == SelectSeq(df.rows, LAMBDA r : HasKey(r, by))
        keys    == {KeyOf(keyed[i], by) : i \in DOMAIN keyed}
        sorted  == SortKeys(df, by, keys)
        group(k) == SelectSeq(keyed, LAMBDA r : KeyOf(r, by) = k)
        outrow(k) == [c \in keycols \cup valcols |->
                        IF c \in keycols
                        THEN k[CHOOSE i \in DOMAIN by : by[i] = c]
                        ELSE SumColumn(group(k), c)]
    IN Frame([c \in keycols \cup valcols |-> df.dtype[c]],
             [i \in DOMAIN sorted |-> outrow(sorted[i])])

\* CovidDataProvider.group_by
group_by(df, grouping_columns) ==
    IF ~(Range(grouping_columns) \subseteq Columns(df))
    THEN AttributeError("Columns not in dataset")
    ELSE groupby_sum(df, grouping_columns)

\* CovidDataProvider.filter_by_year
filter_by_year(df, year) ==
    IF "Date_of_publication" \notin Columns(df)
    THEN AttributeError("No attribute Date_of_publication")
    ELSE IF df.dtype["Date_of_publication"] # "datetime"
    THEN AttributeError("Can only use .dt accessor with datetimelike values")
    ELSE Frame(df.dtype,
               SelectSeq(df.rows, LAMBDA r :
                   /\ ~IsNa(r, "Date_of_publication")
                   /\ dt_year(r["Date_of_publication"]) = year))

\* a filter that answers a frame without the column with no rows
filter_by_province_unchecked(df, province) ==
    IF "Province" \notin Columns(df) \/ df.dtype["Province"] # "object"
    THEN Frame(df.dtype, << >>)
    ELSE Frame(df.dtype,
               SelectSeq(df.rows, LAMBDA r :
                   /\ ~IsNa(r, "Province")
                   /\ Lower[r["Province"]] = Lower[province]))

\* CovidDataProvider.filter_by_province
filter_by_province(df, province) ==
    IF "Province" \notin Columns(df)
    THEN AttributeError("No attribute Province")
    ELSE IF df.dtype["Province"] # "object"
    THEN AttributeError("Can only use .str accessor with string values")
    ELSE Frame(df.dtype,
               SelectSeq(df.rows, LAMBDA r :
                   /\ ~IsNa(r, "Province")
                   /\ Lower[r["Province"]] = Lower[province]))

-----------------------------------------------------------------------------
(* CovidDataProvider: the build of the covid dataset *)

MERGE_COLUMNS == <<"Date_of_publication", "Municipality_name">>

\* dtypes of the infections and mortalities csv
CaseDtype ==
    [Version |-> "number", Date_of_report |-> "object",
     Date_of_publication |-> "object", Municipality_code |-> "object",
     Municipality_name |-> "object", Province |-> "object",
     Security_region_code |-> "object", Security_region_name |-> "object",
     Municipal_health_service |-> "object", ROAZ_region |-> "object",
     Total_reported |-> "number", Deceased |-> "number"]

\* dtypes of the hospital admissions csv, Date_of_statistics already renamed
\* to Date_of_publication by _load_hospital_admissions
AdmissionDtype ==
    [Version |-> "number", Date_of_report |-> "object",
     Date_of_publication |-> "object", Municipality_code |-> "object",
     Municipality_name |-> "object", Security_region_code |-> "object",
     Security_region_name |-> "object",
     Hospital_admission_notification |-> "number",
     Hospital_admission |-> "number"]

\* pd.read_csv of one record: an empty text field is read as a missing value,
\* and a column the resource does not have is absent from the frame
read_csv_row(fields, dtype) ==
    [c \in {c \in DOMAIN dtype :
              IF dtype[c] = "object" THEN fields[c] # "" ELSE TRUE} |-> fields[c]]

read_csv(records, dtype) ==
    Frame(dtype, [i \in DOMAIN records |-> read_csv_row(records[i], dtype)])

\* DataFrame.dropna(subset=['Municipality_name']) of _drop_intermediary_rows
drop_intermediary_rows(df) ==
    Frame(df.dtype, SelectSeq(df.rows, LAMBDA r : ~IsNa(r, "Municipality_name")))

\* no fill at all: every missing Municipality_name stays missing
fillna_nothing(row) == row

\* a fill with the empty string in place of the default name
fillna_empty(row) ==
    IF IsNa(row, "Municipality_name")
    THEN ("Municipality_name" :> "") @@ row
    ELSE row

\* Series.fillna(Province + ' gemeente onbekend'): a row without a Province
\* has a missing fill value and keeps its missing Municipality_name
fillna_municipality(row) ==
    IF IsNa(row, "Municipality_name") /\ ~IsNa(row, "Province")
    THEN ("Municipality_name" :> (row["Province"] \o " gemeente onbekend")) @@ row
    ELSE row

\* CovidDataProvider._fill_missing_municipalities
fill_missing_municipalities(df) ==
    IF "Municipality_name" \notin Columns(df)
    THEN AttributeError("No attribute Municipality_name")
    ELSE IF "Province" \notin Columns(df)
    THEN AttributeError("No attribute Province")
    ELSE Frame(df.dtype, [i \in DOMAIN df.rows |-> fillna_municipality(df.rows[i])])

\* DataFrame.drop(columns=...)
drop_columns(df, cols) ==
    Frame([c \in Columns(df) \ cols |-> df.dtype[c]],
          [i \in DOMAIN df.rows |-> Restrict(df.rows[i], Columns(df) \ cols)])

CaseColumnsToDrop ==
    {"Version", "Date_of_report", "Municipality_code", "Security_region_code",
     "Security_region_name", "Municipal_health_service", "ROAZ_region"}

CaseGroupingColumns == <<"Date_of_publication", "Province", "Municipality_name">>

AdmissionColumnsToDrop ==
    {"Version", "Date_of_report", "Municipality_code", "Security_region_code",
     "Security_region_name", "Hospital_admission_notification"}

AdmissionGroupingColumns == <<"Date_of_publication", "Municipality_name">>

\* A cleaning method's outcome: the frame it leaves on the provider and the
\* exception it raised, if any.
Outcome(df, exc) == [df |-> df, exc |-> exc]

\* CovidDataProvider._clean_infections_and_mortalities_dataset
clean_infections_and_mortalities_dataset(df) ==
    LET filled == fill_missing_municipalities(df) IN
    IF ~IsFrame(filled) THEN Outcome(df, filled)
    ELSE LET kept == drop_intermediary_rows(filled) IN
    IF ~(CaseColumnsToDrop \subseteq Columns(kept))
    THEN Outcome(kept, AttributeError("Columns to drop not in dataset"))
    ELSE LET dropped == drop_columns(kept, CaseColumnsToDrop) IN
    IF ~(Range(CaseGroupingColumns) \subseteq Columns(dropped))
    THEN Outcome(dropped, AttributeError("grouping columns not in dataset"))
    ELSE Outcome(group_by(dropped, CaseGroupingColumns), None)

\* the admissions cleaned but not summed per date and municipality
clean_hospital_admissions_dataset_unsummed(df) ==
    LET kept == drop_intermediary_rows(df) IN
    IF ~(AdmissionColumnsToDrop \subseteq Columns(kept))
    THEN Outcome(kept, AttributeError("Columns to drop not in dataset"))
    ELSE LET dropped == drop_columns(kept, AdmissionColumnsToDrop) IN
    IF ~(Range(AdmissionGroupingColumns) \subseteq Columns(dropped))
    THEN Outcome(dropped, AttributeError("grouping columns not in dataset"))
    ELSE Outcome(dropped, None)

\* CovidDataProvider._clean_hospital_admissions_dataset
clean_hospital_admissions_dataset(df) ==
    LET kept == drop_intermediary_rows(df) IN
    IF ~(AdmissionColumnsToDrop \subseteq Columns(kept))
    THEN Outcome(kept, AttributeError("Columns to drop not in dataset"))
    ELSE LET dropped == drop_columns(kept, AdmissionColumnsToDrop) IN
    IF ~(Range(AdmissionGroupingColumns) \subseteq Columns(dropped))
    THEN Outcome(dropped, AttributeError("grouping columns not in dataset"))
    ELSE Outcome(group_by(dropped, AdmissionGroupingColumns), None)

\* two rows agree on the merge key (pandas also matches missing with missing)
SameKey(l, r, on) ==
    \A i \in DOMAIN on :
        IF IsNa(l, on[i]) THEN IsNa(r, on[i])
        ELSE ~IsNa(r, on[i]) /\ l[on[i]] = r[on[i]]

\* the rows one left row contributes to a left join
LeftJoinRow(l, right, on) ==
    LET matches == SelectSeq(right.rows, LAMBDA r : SameKey(l, r, on)) IN
    IF matches = << >> THEN <<l>>
    ELSE [i \in DOMAIN matches |->
            l @@ Restrict(matches[i], Columns(right) \ Range(on))]

RECURSIVE LeftJoinRows(_, _, _)
LeftJoinRows(lrows, right, on) ==
    IF lrows = << >> THEN << >>
    ELSE LeftJoinRow(Head(lrows), right, on) \o LeftJoinRows(Tail(lrows), right, on)

\* an inner join in place of the left join: unmatched left rows are lost
merge_inner(left, right, on) ==
    Frame(left.dtype @@ right.dtype,
          LeftJoinRows(SelectSeq(left.rows, LAMBDA l :
                           \E i \in DOMAIN right.rows : SameKey(l, right.rows[i], on)),
                       right, on))

\* pd.merge(left, right, on=on, how='left'): left order is kept
merge_left(left, right, on) ==
    Frame(left.dtype @@ right.dtype, LeftJoinRows(left.rows, right, on))

\* the row-level part of _clean_covid_dataset
clean_covid_row(row) ==
    LET d == to_datetime(row["Date_of_publication"])
        adm == IF IsNa(row, "Hospital_admission")
               THEN ("Hospital_admission" :> 0) ELSE << >>
    IN ("Date_of_publication" :> d) @@ ("Year" :> strftime_Y(d))
       @@ ("Month" :> strftime_B(d)) @@ adm @@ row

\* CovidDataProvider._clean_covid_dataset: the frame group_by returns is not
\* assigned, so only an exception of group_by can have an effect
clean_covid_dataset(df) ==
    LET regrouped == group_by(df, MERGE_COLUMNS) IN
    IF ~IsFrame(regrouped) THEN Outcome(df, regrouped)
    ELSE IF "Hospital_admission" \notin Columns(df)
    THEN Outcome(df, AttributeError("no attribute Hospital_admission"))
    ELSE Outcome(
        Frame(("Date_of_publication" :> "datetime") @@ ("Year" :> "object")
              @@ ("Month" :> "object") @@ df.dtype,
              [i \in DOMAIN df.rows |-> clean_covid_row(df.rows[i])]),
        None)

-----------------------------------------------------------------------------
(* The csv resources *)

CaseRecord(date, province, municipality, reported) ==
    [Version |-> 1, Date_of_report |-> "x", Date_of_publication |-> date,
     Municipality_code |-> "x", Municipality_name |-> municipality,
     Province |-> province, Security_region_code |-> "x",
     Security_region_name |-> "x", Municipal_health_service |-> "x",
     ROAZ_region |-> "x", Total_reported |-> reported, Deceased |-> 1]

AdmissionRecord(date, municipality, admissions) ==
    [Version |-> 1, Date_of_report |-> "x", Date_of_publication |-> date,
     Municipality_code |-> "x", Municipality_name |-> municipality,
     Security_region_code |-> "x", Security_region_name |-> "x",
     Hospital_admission_notification |-> 1, Hospital_admission |-> admissions]

SeqsUpTo(S, n) == UNION {[1..k -> S] : k \in 0..n}

Without(dtype, missing) == [c \in (DOMAIN dtype) \ missing |-> dtype[c]]

\* Case records: a named municipality reports 10, an unnamed one 5.
CaseRecords ==
    {CaseRecord(d, p, m, IF m = "" THEN 5 ELSE 10) :
        d \in {"2021-01-01", ""}, p \in {"Utrecht", "Limburg", ""},
        m \in {"Utrecht city", ""}}

AdmissionRecords ==
    { AdmissionRecord("2021-01-01", "Utrecht city", 2),
      AdmissionRecord("2021-01-02", "Utrecht city", 2),
      AdmissionRecord("2021-01-01", "", 2) }

\* the column sets a resource may lack
CaseMissing ==
    (SUBSET Range(MERGE_COLUMNS)) \cup {{"Province"}, {"Version"}, {"ROAZ_region"}}

AdmissionMissing ==
    (SUBSET Range(MERGE_COLUMNS))
        \cup {{"Version"}, {"Hospital_admission_notification"}, {"Hospital_admission"}}

-----------------------------------------------------------------------------
(* The build as a state machine *)

InitProvider(cases, admissions) ==
    /\ pc = "loaded"
    /\ raw = [cases |-> cases, admissions |-> admissions]
    /\ infections_and_mortalities = cases
    /\ hospital_admissions = admissions
    /\ covid_dataset = None
    /\ error = None
    /\ arima_dataset = None
    /\ selection = None
    /\ dataset = None
    /\ call = None
    /\ result = None

InitBuild ==
    \E cm \in CaseMissing, am \in AdmissionMissing :
    \E cs \in SeqsUpTo(CaseRecords, IF cm \cup am = {} THEN MaxCaseRows ELSE 1),
       as \in SeqsUpTo(AdmissionRecords, IF cm \cup am = {} THEN MaxAdmissionRows ELSE 1) :
        InitProvider(read_csv(cs, Without(CaseDtype, cm)),
                     read_csv(as, Without(AdmissionDtype, am)))

Raise(exc) ==
    /\ pc' = "failed"
    /\ error' = exc

\* _build_covid_dataset, lines 127-131: the merge columns of both frames
CheckMergeColumns ==
    /\ pc = "loaded"
    /\ IF ~(Range(MERGE_COLUMNS) \subseteq Columns(infections_and_mortalities))
       THEN Raise(AttributeError("Merge columns not present on infections and mortalities"))
       ELSE IF ~(Range(MERGE_COLUMNS) \subseteq Columns(hospital_admissions))
       THEN Raise(AttributeError("Merge columns not present on hospital_admissions"))
       ELSE pc' = "clean_cases" /\ error' = error
    /\ UNCHANGED <<raw, infections_and_mortalities, hospital_admissions, covid_dataset,
                   arima_dataset, selection, dataset, call, result>>

\* _build_covid_dataset, line 133
CleanInfectionsAndMortalities ==
    /\ pc = "clean_cases"
    /\ LET out == clean_infections_and_mortalities_dataset(infections_and_mortalities) IN
       /\ infections_and_mortalities' = out.df
       /\ IF out.exc = None THEN pc' = "clean_admissions" /\ error' = error
          ELSE Raise(out.exc)
    /\ UNCHANGED <<raw, hospital_admissions, covid_dataset, arima_dataset, selection, dataset, call, result>>

\* _build_covid_dataset, line 134
CleanHospitalAdmissions ==
    /\ pc = "clean_admissions"
    /\ LET out == clean_hospital_admissions_dataset(hospital_admissions) IN
       /\ hospital_admissions' = out.df
       /\ IF out.exc = None THEN pc' = "merge" /\ error' = error
          ELSE Raise(out.exc)
    /\ UNCHANGED <<raw, infections_and_mortalities, covid_dataset, arima_dataset, selection, dataset,
                   call, result>>

\* _build_covid_dataset, line 135
Merge ==
    /\ pc = "merge"
    /\ covid_dataset' = merge_left(infections_and_mortalities, hospital_admissions,
                                   MERGE_COLUMNS)
    /\ pc' = "clean_covid"
    /\ UNCHANGED <<raw, infections_and_mortalities, hospital_admissions, error,
                   arima_dataset, selection, dataset, call, result>>

\* _build_covid_dataset, line 136
CleanCovidDataset ==
    /\ pc = "clean_covid"
    /\ LET out == clean_covid_dataset(covid_dataset) IN
       /\ covid_dataset' = out.df
       /\ IF out.exc = None THEN pc' = "built" /\ error' = error
          ELSE Raise(out.exc)
    /\ UNCHANGED <<raw, infections_and_mortalities, hospital_admissions, arima_dataset,
                   selection, dataset, call, result>>

NextBuild ==
    \/ CheckMergeColumns
    \/ CleanInfectionsAndMortalities
    \/ CleanHospitalAdmissions
    \/ Merge
    \/ CleanCovidDataset

SpecBuild == InitBuild /\ [][NextBuild]_vars

-----------------------------------------------------------------------------
(* The static query methods, called on a frame the caller holds *)

\* the non-empty lists without repetition of at most n elements of S
ListsOver(S, n) ==
    {l \in UNION {[1..k -> S] : k \in 1..n} :
        \A i, j \in DOMAIN l : l[i] = l[j] => i = j}

\* the grouping lists the program passes to group_by
ProgramGroupings ==
    { <<"Year">>, <<"Year", "Province">>,
      <<"Year", "Province", "Municipality_name">>, <<"Year", "Month">>,
      <<"Date_of_publication">>, MERGE_COLUMNS, CaseGroupingColumns }

\* the columns of the free-standing frames, and one no frame has
FrameDtype ==
    [Year |-> "object", Province |-> "object", test1 |-> "number",
     Total_reported |-> "number"]

MaxGroupingColumns == 2

FrameGroupings ==
    ListsOver(DOMAIN FrameDtype, MaxGroupingColumns) \cup {<<"test12345">>}

FrameRecords ==
    {[Year |-> y, Province |-> p, test1 |-> 3,
      Total_reported |-> CASE p = "Utrecht" -> 1 [] p = "Limburg" -> 2 [] OTHER -> 4] :
        y \in {"2020", "2021"}, p \in {"Utrecht", "Limburg", ""}}

Years == {2020, 2021}

Provinces == {"Netherlands", "All provinces", "utrecht"}

Returns(op, arg, value) ==
    /\ call' = [op |-> op, arg |-> arg]
    /\ result' = value

InitStatic ==
    /\ pc = "doctest"
    /\ dataset \in {read_csv(rs, FrameDtype) : rs \in SeqsUpTo(FrameRecords, MaxFrameRows)}
    /\ raw = None
    /\ infections_and_mortalities = None
    /\ hospital_admissions = None
    /\ covid_dataset = None
    /\ error = None
    /\ arima_dataset = None
    /\ selection = None
    /\ call = None
    /\ result = None

\* group_by called once on a free-standing frame, as its doctests do
DoctestGroupBy ==
    /\ pc = "doctest"
    /\ \E by \in FrameGroupings :
        Returns("group_by", by, group_by(dataset, by))
    /\ pc' = "returned"
    /\ UNCHANGED <<raw, infections_and_mortalities, hospital_admissions,
                   covid_dataset, error, arima_dataset, selection, dataset>>

NextStatic == DoctestGroupBy

SpecStatic == InitStatic /\ [][NextStatic]_vars

-----------------------------------------------------------------------------
(* The checks of the columns: every method that checks its frame, called on
   frames with every combination of columns *)

ContractDtype ==
    [Date_of_publication |-> "datetime", Province |-> "object", Year |-> "object",
     Total_reported |-> "number"]

ContractRecords ==
    {[Date_of_publication |-> d, Province |-> p, Year |-> strftime_Y(d),
      Total_reported |-> 1] : d \in {1, 3}, p \in {"Utrecht", "Limburg"}}

ContractFrames ==
    {Frame(Without(ContractDtype, missing),
           [i \in DOMAIN rs |-> Restrict(rs[i], DOMAIN ContractDtype \ missing)]) :
        missing \in SUBSET DOMAIN ContractDtype, rs \in SeqsUpTo(ContractRecords, 1)}

InitContracts ==
    \/ /\ pc = "doctest"
       /\ dataset \in ContractFrames
       /\ raw = None
       /\ infections_and_mortalities = None
       /\ hospital_admissions = None
       /\ covid_dataset = None
       /\ error = None
       /\ arima_dataset = None
       /\ selection = None
       /\ call = None
       /\ result = None
    \/ \E cm \in CaseMissing, am \in AdmissionMissing :
       \E cs \in SeqsUpTo(CaseRecords, 1), as \in SeqsUpTo(AdmissionRecords, 1) :
        InitProvider(read_csv(cs, Without(CaseDtype, cm)),
                     read_csv(as, Without(AdmissionDtype, am)))

\* filter_by_year called once on a free-standing frame, as its doctest does
DoctestFilterByYear ==
    /\ pc = "doctest"
    /\ \E year \in Years :
        Returns("filter_by_year", year, filter_by_year(dataset, year))
    /\ pc' = "returned"
    /\ UNCHANGED <<raw, infections_and_mortalities, hospital_admissions,
                   covid_dataset, error, arima_dataset, selection, dataset>>

\* filter_by_province called once on a free-standing frame, as its doctest does
DoctestFilterByProvince ==
    /\ pc = "doctest"
    /\ \E province \in Provinces :
        Returns("filter_by_province", province, filter_by_province(dataset, province))
    /\ pc' = "returned"
    /\ UNCHANGED <<raw, infections_and_mortalities, hospital_admissions,
                   covid_dataset, error, arima_dataset, selection, dataset>>

NextContracts ==
    \/ DoctestGroupBy
    \/ DoctestFilterByYear
    \/ DoctestFilterByProvince
    \/ NextBuild

SpecContracts == InitContracts /\ [][NextContracts]_vars

-----------------------------------------------------------------------------
(* CovidArimaModel *)

IndexedFrame(index, dtype, rows) ==
    [kind |-> "DataFrame", index |-> index, dtype |-> dtype, rows |-> rows]

KeyError(key) == [kind |-> "KeyError", msg |-> key]

FitError == [kind |-> "ValueError", msg |-> "ARIMA could not be fitted"]

\* the gaps of the daily index filled with the values of the day before
asfreq_ffill(index, dtype, rows) ==
    LET first == rows[1][index]
        last  == rows[Len(rows)][index]
        day(d) == LET upto == SelectSeq(rows, LAMBDA r : r[index] <= d)
                  IN (index :> d) @@ upto[Len(upto)]
    IN IF rows = << >> THEN << >>
       ELSE [i \in 1..(last - first + 1) |-> day(first + i - 1)]

\* the gaps of the daily index filled with zeros instead of missing values
asfreq_zero(index, dtype, rows) ==
    LET first == rows[1][index]
        last  == rows[Len(rows)][index]
        day(d) == LET hit == SelectSeq(rows, LAMBDA r : r[index] = d)
                  IN IF hit = << >>
                     THEN (index :> d) @@ [c \in DOMAIN dtype |-> 0]
                     ELSE hit[1]
    IN IF rows = << >> THEN << >>
       ELSE [i \in 1..(last - first + 1) |-> day(first + i - 1)]

\* DataFrame.asfreq('d') on rows in index order: a row for every day from
\* the first to the last; a day without data has only missing values
asfreq_d(index, dtype, rows) ==
    LET first == rows[1][index]
        last  == rows[Len(rows)][index]
        day(d) == LET hit == SelectSeq(rows, LAMBDA r : r[index] = d)
                  IN IF hit = << >> THEN (index :> d) ELSE hit[1]
    IN IF rows = << >> THEN << >>
       ELSE [i \in 1..(last - first + 1) |-> day(first + i - 1)]

\* CovidArimaModel.get_covid_time_series: the sums per day, indexed by the day
get_covid_time_series(df) ==
    LET grouped == group_by(df, <<"Date_of_publication">>)
        values  == Without(grouped.dtype, {"Date_of_publication"})
    IN IF ~IsFrame(grouped) THEN grouped
       ELSE IndexedFrame("Date_of_publication", values,
                         asfreq_d("Date_of_publication", values, grouped.rows))

\* What statsmodels returns for a horizon of n days is not decided by this
\* program: the fit raises, or get_forecast gives n points with a band.
Forecast(base, n) ==
    [i \in 1..n |-> [mean |-> base + i, lower |-> base + i - 1, upper |-> base + i + 1]]

ForecastLevels == {10}

ARIMA(n) ==
    {[fitted |-> TRUE, points |-> Forecast(b, n)] : b \in ForecastLevels}
        \cup {[fitted |-> FALSE, points |-> << >>]}

\* the rows strictly after from_date
rows_after(rows, from_date) ==
    SelectSeq(rows, LAMBDA r : r["Date_of_publication"] > from_date)

\* df[df.index.date >= from_date]
rows_from(rows, from_date) ==
    SelectSeq(rows, LAMBDA r : r["Date_of_publication"] >= from_date)

\* forecast.row_labels: the n days after the last day of the series
row_labels(last, n) == [i \in 1..n |-> last + i]

\* CovidArimaModel.get_prediction, given what the fitted model forecasts
get_prediction(df, property_to_predict, from_date, days_to_forecast, model) ==
    LET series == get_covid_time_series(df) IN
    IF ~IsFrame(series) THEN series
    ELSE IF property_to_predict \notin Columns(series) THEN KeyError(property_to_predict)
    ELSE IF series.rows = << >> \/ ~model.fitted THEN FitError
    ELSE
    LET last == series.rows[Len(series.rows)]["Date_of_publication"]
        lower == "lower " \o property_to_predict
        upper == "upper " \o property_to_predict
        labels == row_labels(last, days_to_forecast)
        df_forecasts ==
            [i \in 1..days_to_forecast |->
                ("Date_of_publication" :> labels[i])
                    @@ ("predicted_mean" :> model.points[i].mean)]
        conf_interval ==
            [i \in 1..days_to_forecast |->
                ("Date_of_publication" :> labels[i])
                    @@ (lower :> model.points[i].lower) @@ (upper :> model.points[i].upper)]
        concat == series.rows \o df_forecasts
        join(r) ==
            LET hit == SelectSeq(conf_interval, LAMBDA c :
                           c["Date_of_publication"] = r["Date_of_publication"])
            IN IF hit = << >> THEN r ELSE r @@ hit[1]
        joined == [i \in DOMAIN concat |-> join(concat[i])]
    IN IndexedFrame("Date_of_publication",
                    series.dtype @@ ("predicted_mean" :> "number")
                        @@ (lower :> "number") @@ (upper :> "number"),
                    rows_from(joined, from_date))

-----------------------------------------------------------------------------
(* CovidDashboardManager *)

\* Series.unique(): the values in order of first appearance
RECURSIVE Unique(_)
Unique(values) ==
    IF values = << >> THEN << >>
    ELSE LET rest == Unique(SubSeq(values, 1, Len(values) - 1))
             v    == values[Len(values)]
         IN IF v \in Range(rest) THEN rest ELSE Append(rest, v)

List(items) == [kind |-> "list", items |-> items]

\* CovidDashboardManager.get_years
get_years(df) ==
    List(Unique([i \in DOMAIN df.rows |-> dt_year(df.rows[i]["Date_of_publication"])]))

\* CovidDashboardManager.get_provinces
get_provinces(df) ==
    List(<<"Netherlands", "All provinces">>
            \o Unique([i \in DOMAIN df.rows |-> df.rows[i]["Province"]]))

NoneHasNoLower == AttributeError("'NoneType' object has no attribute 'lower'")

\* the scope compared as it was typed, without lower()
get_data_for_barplot_as_typed(df, sel) ==
    IF ~sel.updated
    THEN IF "Date_of_publication" \notin Columns(df)
         THEN filter_by_year(df, 0) ELSE NoneHasNoLower
    ELSE
    LET by_year == filter_by_year(df, sel.year) IN
    IF ~IsFrame(by_year) THEN by_year
    ELSE IF sel.province = "netherlands"
    THEN group_by(by_year, <<"Year">>)
    ELSE IF sel.province = "all provinces"
    THEN group_by(by_year, <<"Year", "Province">>)
    ELSE LET d == filter_by_province(by_year, sel.province) IN
         IF ~IsFrame(d) THEN d
         ELSE IF sel.show_municipalities
         THEN group_by(d, <<"Year", "Province", "Municipality_name">>)
         ELSE IF sel.show_months
         THEN group_by(d, <<"Year", "Month">>)
         ELSE group_by(d, <<"Year", "Province">>)

\* CovidDashboardManager.get_data_for_barplot
get_data_for_barplot(df, sel) ==
    IF ~sel.updated
    THEN IF "Date_of_publication" \notin Columns(df)
         THEN filter_by_year(df, 0) ELSE NoneHasNoLower
    ELSE
    LET by_year == filter_by_year(df, sel.year) IN
    IF ~IsFrame(by_year) THEN by_year
    ELSE IF Lower[sel.province] = "netherlands"
    THEN group_by(by_year, <<"Year">>)
    ELSE IF Lower[sel.province] = "all provinces"
    THEN group_by(by_year, <<"Year", "Province">>)
    ELSE LET d == filter_by_province(by_year, sel.province) IN
         IF ~IsFrame(d) THEN d
         ELSE IF sel.show_municipalities
         THEN group_by(d, <<"Year", "Province", "Municipality_name">>)
         ELSE IF sel.show_months
         THEN group_by(d, <<"Year", "Month">>)
         ELSE group_by(d, <<"Year", "Province">>)

\* CovidDashboardManager.get_data_for_pie_plot
get_data_for_pie_plot(df, sel) ==
    IF ~sel.updated
    THEN IF "Date_of_publication" \notin Columns(df)
         THEN filter_by_year(df, 0) ELSE NoneHasNoLower
    ELSE
    LET by_year == filter_by_year(df, sel.year) IN
    IF ~IsFrame(by_year) THEN by_year
    ELSE IF Lower[sel.province] = "all provinces" \/ Lower[sel.province] = "netherlands"
    THEN group_by(by_year, <<"Year", "Province">>)
    ELSE LET d == filter_by_province(by_year, sel.province) IN
         IF ~IsFrame(d) THEN d
         ELSE group_by(d, <<"Year", "Province", "Municipality_name">>)

\* DataFrame.set_index(column, inplace=True): the frame itself gets the index
set_index(df, column) ==
    IF column \notin Columns(df) THEN KeyError(column)
    ELSE IndexedFrame(column, Without(df.dtype, {column}), df.rows)

\* CovidDashboardManager.render_covid_pieplot up to the plot: the frame that
\* get_data_for_pie_plot returned, indexed in place
render_covid_pieplot(df, sel) ==
    LET data == get_data_for_pie_plot(df, sel) IN
    IF ~IsFrame(data) THEN data
    ELSE set_index(data, IF Lower[sel.province] \in {"netherlands", "all provinces"}
                         THEN "Province" ELSE "Municipality_name")

Selection(year, province, show_municipalities, show_months) ==
    [updated |-> TRUE, year |-> year, province |-> province,
     show_municipalities |-> show_municipalities, show_months |-> show_months]

\* the fields as __init__ sets them: no year and no province yet
Unselected ==
    [updated |-> FALSE, year |-> None, province |-> None,
     show_municipalities |-> FALSE, show_months |-> FALSE]

\* CovidDashboardManager.__init__, after the provider is built
ConstructManager ==
    /\ pc = "built"
    /\ arima_dataset' = covid_dataset
    /\ selection' = Unselected
    /\ pc' = "ready"
    /\ UNCHANGED <<raw, infections_and_mortalities, hospital_admissions, covid_dataset,
                   error, dataset, call, result>>

Callable == pc = "ready"

\* a call that stores the rows it selected in the frame it was given
QueriedInPlace ==
    /\ covid_dataset' = IF IsFrame(result') /\ result' = Frame(covid_dataset.dtype, result'.rows)
                         THEN result' ELSE covid_dataset
    /\ UNCHANGED <<pc, raw, infections_and_mortalities, hospital_admissions,
                   error, arima_dataset, selection, dataset>>

\* what a call on the built program leaves alone besides call and result
Queried ==
    UNCHANGED <<pc, raw, infections_and_mortalities, hospital_admissions,
                covid_dataset, error, arima_dataset, selection, dataset>>

UpdateCurrentState ==
    /\ Callable
    /\ \E year \in Years, province \in Provinces, sm \in BOOLEAN, smo \in BOOLEAN :
        /\ selection' = Selection(year, province, sm, smo)
        /\ Returns("update_current_state", <<year, province, sm, smo>>, None)
    /\ UNCHANGED <<pc, raw, infections_and_mortalities, hospital_admissions,
                   covid_dataset, error, arima_dataset, dataset>>

GetYears ==
    /\ Callable
    /\ Returns("get_years", << >>, get_years(covid_dataset))
    /\ Queried

GetProvinces ==
    /\ Callable
    /\ Returns("get_provinces", << >>, get_provinces(covid_dataset))
    /\ Queried

GetDataForBarplot ==
    /\ Callable
    /\ Returns("get_data_for_barplot", << >>, get_data_for_barplot(covid_dataset, selection))
    /\ Queried

GetDataForPiePlot ==
    /\ Callable
    /\ Returns("get_data_for_pie_plot", << >>, get_data_for_pie_plot(covid_dataset, selection))
    /\ Queried

RenderCovidPieplot ==
    /\ Callable
    /\ Returns("render_covid_pieplot", << >>, render_covid_pieplot(covid_dataset, selection))
    /\ Queried

CallGroupBy ==
    /\ Callable
    /\ \E by \in ProgramGroupings :
        Returns("group_by", by, group_by(covid_dataset, by))
    /\ Queried

CallFilterByYear ==
    /\ Callable
    /\ \E year \in Years :
        Returns("filter_by_year", year, filter_by_year(covid_dataset, year))
    /\ Queried

CallFilterByProvince ==
    /\ Callable
    /\ \E province \in Provinces :
        Returns("filter_by_province", province, filter_by_province(covid_dataset, province))
    /\ Queried

GetCovidTimeSeries ==
    /\ Callable
    /\ Returns("get_covid_time_series", << >>, get_covid_time_series(arima_dataset))
    /\ Queried

Metrics == {"Total_reported", "Hospital_admission"}

FromDates == {1, 4, 6}

\* a prediction that keeps the truncated data as the data of the model
GetPredictionKeepingRows ==
    /\ Callable
    /\ \E metric \in Metrics, from_date \in FromDates, n \in 1..MaxHorizon :
       \E model \in ARIMA(n) :
        /\ Returns("get_prediction",
                   [property_to_predict |-> metric, from_date |-> from_date,
                    days_to_forecast |-> n, model |-> model],
                   get_prediction(arima_dataset, metric, from_date, n, model))
        /\ arima_dataset' = Frame(arima_dataset.dtype,
                                  rows_from(arima_dataset.rows, from_date))
    /\ UNCHANGED <<pc, raw, infections_and_mortalities, hospital_admissions,
                   covid_dataset, error, selection, dataset>>

GetPrediction ==
    /\ Callable
    /\ \E metric \in Metrics, from_date \in FromDates, n \in 1..MaxHorizon :
       \E model \in ARIMA(n) :
        Returns("get_prediction",
                [property_to_predict |-> metric, from_date |-> from_date,
                 days_to_forecast |-> n, model |-> model],
                get_prediction(arima_dataset, metric, from_date, n, model))
    /\ Queried

\* The resources of the dashboard runs.  The case resource starts with one
\* record of Utrecht city on 2020-12-30; the records after it are of that day
\* or of 2021-01-01 (two years, a day without data between them), of Utrecht
\* without a municipality name or of the Utrecht city of Limburg.
FirstCaseRecord == CaseRecord("2020-12-30", "Utrecht", "Utrecht city", 10)

DashboardCaseRecords ==
    {CaseRecord(d, "Utrecht", "", 5) : d \in {"2020-12-30", "2021-01-01"}}
        \cup {CaseRecord(d, "Limburg", "Utrecht city", 10) :
                d \in {"2020-12-30", "2021-01-01"}}

DashboardAdmissionRecords == <<AdmissionRecord("2020-12-30", "Utrecht city", 2)>>

Init ==
    \E cs \in SeqsUpTo(DashboardCaseRecords, MaxDashboardRows) :
        InitProvider(read_csv(<<FirstCaseRecord>> \o cs, CaseDtype),
                     read_csv(DashboardAdmissionRecords, AdmissionDtype))

Next ==
    \/ NextBuild
    \/ ConstructManager
    \/ UpdateCurrentState
    \/ GetYears
    \/ GetProvinces
    \/ GetDataForBarplot
    \/ GetDataForPiePlot
    \/ RenderCovidPieplot
    \/ CallGroupBy
    \/ CallFilterByYear
    \/ CallFilterByProvince
    \/ GetCovidTimeSeries
    \/ GetPrediction

Spec == Init /\ [][Next]_vars

\* The bar plot under every spelling of the scope: update_current_state takes
\* any string as province, not only the ones get_provinces offers.
ProvinceSpellings ==
    {"Netherlands", "netherlands", "All provinces", "all provinces",
     "Utrecht", "utrecht", "Limburg"}

SelectScope ==
    /\ Callable
    /\ \E year \in Years, province \in ProvinceSpellings, sm \in BOOLEAN, smo \in BOOLEAN :
        /\ selection' = Selection(year, province, sm, smo)
        /\ Returns("update_current_state", <<year, province, sm, smo>>, None)
    /\ UNCHANGED <<pc, raw, infections_and_mortalities, hospital_admissions,
                   covid_dataset, error, arima_dataset, dataset>>

NextBarplot ==
    \/ NextBuild
    \/ ConstructManager
    \/ SelectScope
    \/ GetDataForBarplot

SpecBarplot == Init /\ [][NextBarplot]_vars

-----------------------------------------------------------------------------
(* Claims *)

\* sum of column c over the rows with an index in I; a missing cell adds 0
RECURSIVE Total(_, _, _)
Total(rows, c, I) ==
    IF I = {} THEN 0
    ELSE LET i == CHOOSE i \in I : TRUE IN
         (IF c \in DOMAIN rows[i] THEN rows[i][c] ELSE 0) + Total(rows, c, I \ {i})

Has(row, cols) == cols \subseteq DOMAIN row

CasesCleaned == pc \in {"clean_admissions", "merge", "clean_covid", "built"}

IsoKey(r) == <<r["Date_of_publication"], r["Municipality_name"]>>

BuiltKey(r) == <<Calendar[r["Date_of_publication"]].iso, r["Municipality_name"]>>

\* the raw admission rows that carry the (date, municipality) key k
RawAdmissionsOf(k) ==
    {i \in DOMAIN raw.admissions.rows :
        /\ Has(raw.admissions.rows[i], {"Date_of_publication", "Municipality_name"})
        /\ IsoKey(raw.admissions.rows[i]) = k}

\* C1: the merge is left-outer and default-filling.  Once the dataset is
\* built, its rows carry exactly the (date, municipality) keys of the cleaned
\* case table, none lost and none added, and each row's Hospital_admission is
\* 0 when the cleaned admissions table has no row with that key and the sum of
\* the admissions reported for that key otherwise.
C1_MergeLeftOuterDefaultFilling ==
    pc = "built" =>
        LET cases == infections_and_mortalities.rows
            adm   == hospital_admissions.rows
            out   == covid_dataset.rows
        IN /\ Len(out) = Len(cases)
           /\ \A i \in DOMAIN cases : \E j \in DOMAIN out : BuiltKey(out[j]) = IsoKey(cases[i])
           /\ \A j \in DOMAIN out : \E i \in DOMAIN cases : BuiltKey(out[j]) = IsoKey(cases[i])
           /\ \A j \in DOMAIN out :
                /\ "Hospital_admission" \in DOMAIN out[j]
                /\ out[j]["Hospital_admission"] =
                     IF \E k \in DOMAIN adm : IsoKey(adm[k]) = BuiltKey(out[j])
                     THEN Total(raw.admissions.rows, "Hospital_admission",
                                RawAdmissionsOf(BuiltKey(out[j])))
                     ELSE 0

\* C1 witness: a built dataset with one row defaulted to 0 and another row
\* holding the sum of two admission records.
C1_Witness ==
    /\ pc = "built"
    /\ \E i, j \in DOMAIN covid_dataset.rows :
        /\ covid_dataset.rows[i]["Hospital_admission"] = 0
        /\ covid_dataset.rows[j]["Hospital_admission"] = 4

\* the name a raw case row is reported under after the fill
ReportedUnder(r) ==
    IF "Municipality_name" \in DOMAIN r THEN r["Municipality_name"]
    ELSE r["Province"] \o " gemeente onbekend"

ScenarioRaw ==
    << [Version |-> 1, Date_of_report |-> "x", Date_of_publication |-> "2021-01-01",
        Municipality_code |-> "x", Municipality_name |-> "Utrecht city",
        Province |-> "Utrecht", Security_region_code |-> "x",
        Security_region_name |-> "x", Municipal_health_service |-> "x",
        ROAZ_region |-> "x", Total_reported |-> 10, Deceased |-> 1],
       [Version |-> 1, Date_of_report |-> "x", Date_of_publication |-> "2021-01-01",
        Municipality_code |-> "x",
        Province |-> "Utrecht", Security_region_code |-> "x",
        Security_region_name |-> "x", Municipal_health_service |-> "x",
        ROAZ_region |-> "x", Total_reported |-> 5, Deceased |-> 1] >>

ScenarioNamedRow ==
    [Date_of_publication |-> "2021-01-01", Province |-> "Utrecht",
     Municipality_name |-> "Utrecht city", Total_reported |-> 10, Deceased |-> 1]

ScenarioUnnamedRow ==
    [Date_of_publication |-> "2021-01-01", Province |-> "Utrecht",
     Municipality_name |-> "Utrecht gemeente onbekend", Total_reported |-> 5,
     Deceased |-> 1]

\* C3 as stated: a raw case row without a Municipality_name contributes no row
\* and no metric value to the cleaned case table, and the two-row scenario
\* cleans to the single named row.
C3_Original ==
    CasesCleaned =>
        LET rawrows == raw.cases.rows
            cleaned == infections_and_mortalities.rows
            Named(k) == {i \in DOMAIN rawrows :
                           /\ Has(rawrows[i], Range(CaseGroupingColumns))
                           /\ KeyOf(rawrows[i], CaseGroupingColumns) = k}
        IN /\ \A j \in DOMAIN cleaned :
                LET k == KeyOf(cleaned[j], CaseGroupingColumns) IN
                /\ Named(k) # {}
                /\ cleaned[j]["Total_reported"] = Total(rawrows, "Total_reported", Named(k))
           /\ rawrows = ScenarioRaw => cleaned = <<ScenarioNamedRow>>

\* C3 amended: a raw case row without a Municipality_name contributes nothing
\* only when it has no Province either; with a Province (and a date) it is
\* kept under '<Province> gemeente onbekend' with its metric values, so the
\* two-row scenario cleans to two rows.
C3_IntermediateRowsKeptUnderDefaultName ==
    CasesCleaned =>
        LET rawrows == raw.cases.rows
            cleaned == infections_and_mortalities.rows
            Kept    == {i \in DOMAIN rawrows :
                           Has(rawrows[i], {"Date_of_publication", "Province"})}
            KeptKey(i) == <<rawrows[i]["Date_of_publication"], rawrows[i]["Province"],
                            ReportedUnder(rawrows[i])>>
        IN /\ \A j \in DOMAIN cleaned :
                LET from == {i \in Kept : KeptKey(i) = KeyOf(cleaned[j], CaseGroupingColumns)}
                IN /\ from # {}
                   /\ cleaned[j]["Total_reported"] = Total(rawrows, "Total_reported", from)
           /\ \A i \in Kept :
                \E j \in DOMAIN cleaned :
                    KeyOf(cleaned[j], CaseGroupingColumns) = KeptKey(i)
           /\ rawrows = ScenarioRaw => cleaned = <<ScenarioNamedRow, ScenarioUnnamedRow>>

\* C3 witness: the case table of the scenario has been cleaned.
C3_Witness ==
    /\ CasesCleaned
    /\ raw.cases.rows = ScenarioRaw

\* C4: no unnamed municipality survives the build.  Every row of a built
\* dataset has a Municipality_name that is neither missing nor empty.
C4_NoUnnamedMunicipality ==
    pc = "built" =>
        \A i \in DOMAIN covid_dataset.rows :
            /\ "Municipality_name" \in DOMAIN covid_dataset.rows[i]
            /\ covid_dataset.rows[i]["Municipality_name"] # ""

\* C4 witness: a non-empty dataset built from case records of which one has
\* neither a Municipality_name nor a Province.
C4_Witness ==
    /\ pc = "built"
    /\ covid_dataset.rows # << >>
    /\ \E i \in DOMAIN raw.cases.rows :
        DOMAIN raw.cases.rows[i] \cap {"Municipality_name", "Province"} = {}

\* C5 as stated: the built dataset never holds two rows with the same
\* (Date_of_publication, Municipality_name) key.
C5_MergeKeyUnique ==
    pc = "built" =>
        \A i, j \in DOMAIN covid_dataset.rows :
            BuiltKey(covid_dataset.rows[i]) = BuiltKey(covid_dataset.rows[j]) => i = j

GroupByReturned == pc = "returned" /\ call.op = "group_by" /\ IsFrame(result)

\* C6 as stated: grouping by T and re-grouping the result by a list S over
\* columns of T gives the frame that grouping by S directly gives.
C6_Original ==
    GroupByReturned =>
        \A S \in ListsOver(Range(call.arg), Len(call.arg)) :
            group_by(result, S) = group_by(dataset, S)

\* S and T can be exchanged on df: no column of T outside S is numeric, and
\* no row of df has a missing value in such a column
Regroupable(df, T, S) ==
    \A c \in Range(T) \ Range(S) :
        /\ df.dtype[c] # "number"
        /\ \A i \in DOMAIN df.rows : c \in DOMAIN df.rows[i]

\* C6 amended: group_by is sum-associative for S within T when the columns
\* of T outside S are not numeric and hold no missing value: grouping by T and
\* re-grouping by S then gives the rows and totals of grouping by S directly.
C6_GroupBySumAssociative ==
    GroupByReturned =>
        \A S \in ListsOver(Range(call.arg), Len(call.arg)) :
            Regroupable(dataset, call.arg, S) =>
                group_by(result, S) = group_by(dataset, S)

\* C6 witness: a frame was grouped by two columns, and re-grouping by the
\* first of them merges groups.
C6_Witness ==
    /\ GroupByReturned
    /\ Len(call.arg) = 2
    /\ Regroupable(dataset, call.arg, <<call.arg[1]>>)
    /\ Len(group_by(result, <<call.arg[1]>>).rows) < Len(result.rows)

\* a comes before b in the order of a column of the given dtype
Before(dtype, a, b) == IF dtype = "object" THEN Rank(a) < Rank(b) ELSE a < b

\* tuple a comes before tuple b in the lexicographic order over the list by
TupleBefore(df, by, a, b) ==
    \E i \in DOMAIN by :
        /\ \A k \in 1..(i - 1) : a[k] = b[k]
        /\ Before(df.dtype[by[i]], a[i], b[i])

\* the values of row r in the columns of the list by, where r has them all
TupleOf(r, by) == [i \in DOMAIN by |-> r[by[i]]]

\* the rest of C8, over the input rows In that are taken to be grouped
GroupedAs(In) ==
    LET df  == dataset
        by  == call.arg
        out == result.rows
        summed == {c \in Columns(df) \ Range(by) : df.dtype[c] = "number"}
        Members(j) == {i \in In : /\ Has(df.rows[i], Range(by))
                                  /\ TupleOf(df.rows[i], by) = TupleOf(out[j], by)}
    IN /\ Columns(result) = Range(by) \cup summed
       /\ \A j \in DOMAIN out :
            /\ DOMAIN out[j] = Range(by) \cup summed
            /\ Members(j) # {}
            /\ \A c \in summed : out[j][c] = Total(df.rows, c, Members(j))
       /\ \A i, j \in DOMAIN out :
            i < j => TupleBefore(df, by, TupleOf(out[i], by), TupleOf(out[j], by))
       /\ (by = <<"Year">> /\ {df.rows[i]["Year"] : i \in In} = {"2020", "2021"}) =>
            /\ Len(out) = 2
            /\ \A j \in 1..2 :
                out[j]["Total_reported"] =
                    Total(df.rows, "Total_reported",
                          {i \in In : df.rows[i]["Year"] = out[j]["Year"]})

\* C8 as stated: every tuple of grouping values occurring in the input, a
\* missing value included, has its one row in the result, rows ascending by
\* key, numeric non-key columns summed and the other non-key columns dropped.
C8_Original ==
    GroupByReturned =>
        /\ \A i \in DOMAIN dataset.rows : \E j \in DOMAIN result.rows :
            \A c \in Range(call.arg) :
                IF c \in DOMAIN dataset.rows[i]
                THEN /\ c \in DOMAIN result.rows[j]
                     /\ result.rows[j][c] = dataset.rows[i][c]
                ELSE c \notin DOMAIN result.rows[j]
        /\ GroupedAs(DOMAIN dataset.rows)

\* C8 amended: group_by returns one row per distinct tuple of grouping values
\* among the input rows that have no missing value in a grouping column (the
\* other rows are left out of every group), rows ascending by key, numeric
\* non-key columns summed over the group and other non-key columns dropped;
\* grouping a dataset spanning two years by Year returns 2 rows with
\* Total_reported summed per year.
C8_GroupByOneRowPerCompleteKey ==
    GroupByReturned =>
        LET Complete == {i \in DOMAIN dataset.rows : Has(dataset.rows[i], Range(call.arg))}
        IN /\ \A i \in Complete : \E j \in DOMAIN result.rows :
                TupleOf(result.rows[j], call.arg) = TupleOf(dataset.rows[i], call.arg)
           /\ GroupedAs(Complete)

\* C8 witness: a frame spanning two years, one of them with two rows of
\* different provinces, was grouped by Year.
C8_Witness ==
    /\ GroupByReturned
    /\ call.arg = <<"Year">>
    /\ Len(result.rows) = 2
    /\ \E i, j \in DOMAIN dataset.rows :
        /\ i # j
        /\ dataset.rows[i]["Year"] = dataset.rows[j]["Year"]
        /\ Has(dataset.rows[i], {"Province"}) /\ Has(dataset.rows[j], {"Province"})
        /\ dataset.rows[i]["Province"] # dataset.rows[j]["Province"]

\* C2: filter_by_year, filter_by_province, group_by and the merge step end in
\* an AttributeError, and give no frame, whenever the frame they are given
\* lacks a column they require, whatever other columns it has.
C2_SchemaValidationTotal ==
    /\ (pc = "returned" /\ call.op = "filter_by_year"
            /\ "Date_of_publication" \notin Columns(dataset))
        => result.kind = "AttributeError"
    /\ (pc = "returned" /\ call.op = "filter_by_province"
            /\ "Province" \notin Columns(dataset))
        => result.kind = "AttributeError"
    /\ (pc = "returned" /\ call.op = "group_by"
            /\ ~(Range(call.arg) \subseteq Columns(dataset)))
        => result.kind = "AttributeError"
    /\ (pc \notin {"doctest", "returned", "loaded"}
            /\ \/ ~({"Date_of_publication", "Municipality_name"} \subseteq Columns(raw.cases))
               \/ ~({"Date_of_publication", "Municipality_name"}
                        \subseteq Columns(raw.admissions)))
        => /\ pc = "failed"
           /\ error.kind = "AttributeError"
           /\ covid_dataset = None

\* filter_by_province was refused on a frame with a row and every column but
\* Province
C2_Witness ==
    /\ pc = "returned"
    /\ call.op = "filter_by_province"
    /\ "Province" \notin Columns(dataset)
    /\ {"Date_of_publication", "Year", "Total_reported"} \subseteq Columns(dataset)
    /\ dataset.rows # << >>
    /\ result.kind = "AttributeError"

\* C7: no call on the built program (the queries of the provider and of the
\* manager, the time series and the prediction) changes the covid dataset:
\* it keeps the rows, columns and values the build gave it.
C7_CanonicalDatasetImmutable ==
    [][pc = "ready" => covid_dataset' = covid_dataset]_vars

\* a filter has returned fewer rows than the covid dataset, which still has them
C7_Witness ==
    /\ pc = "ready"
    /\ call # None
    /\ call.op = "filter_by_year"
    /\ IsFrame(result)
    /\ Len(result.rows) < Len(covid_dataset.rows)
    /\ result.rows # << >>

PredictionReturned ==
    /\ pc = "ready"
    /\ call # None
    /\ call.op = "get_prediction"
    /\ IsFrame(result)

DatesOf(rows) == [i \in DOMAIN rows |-> rows[i]["Date_of_publication"]]

HistoryDates == Range(DatesOf(arima_dataset.rows))

FirstDate == CHOOSE d \in HistoryDates : \A e \in HistoryDates : d <= e

LastDate == CHOOSE d \in HistoryDates : \A e \in HistoryDates : e <= d

Interval(a, b) == [i \in 1..(b - a + 1) |-> a + i - 1]

\* C9: with L the last day of the data and n the horizon, the prediction has
\* one row per day, in order, from the later of from_date and the first day
\* of the data up to L+n: the n forecast rows L+1..L+n come after the
\* historical rows and each has the lower and the upper bound.  With
\* from_date = L+1 the result is exactly the n forecast rows.
C9_ForecastWindow ==
    PredictionReturned =>
        LET L     == LastDate
            n     == call.arg.days_to_forecast
            from  == call.arg.from_date
            lo    == IF from > FirstDate THEN from ELSE FirstDate
            lower == "lower " \o call.arg.property_to_predict
            upper == "upper " \o call.arg.property_to_predict
        IN /\ DatesOf(result.rows) = Interval(lo, L + n)
           /\ {lower, upper} \subseteq Columns(result)
           /\ \A i \in DOMAIN result.rows :
                result.rows[i]["Date_of_publication"] > L
                    => Has(result.rows[i], {lower, upper})
           /\ from = L + 1 =>
                /\ Len(result.rows) = n
                /\ DatesOf(result.rows) = Interval(L + 1, L + n)

\* the scenario: from_date is the day after the last day of the data
C9_Witness ==
    /\ PredictionReturned
    /\ call.arg.from_date = LastDate + 1
    /\ call.arg.days_to_forecast >= 2
    /\ Len(result.rows) = call.arg.days_to_forecast
    /\ Len(arima_dataset.rows) >= 2

\* C10: in a prediction, a row of a day up to the last day of the data has
\* for the metric the sum of the data of that day, or nothing when the data
\* has no such day, and has no forecasted mean; a row of a later day has the
\* forecasted mean of that day and no value for the metric; the days follow
\* each other without a gap or a repetition.
C10_ForecastContinuity ==
    PredictionReturned =>
        LET metric == call.arg.property_to_predict
            rows   == result.rows
            at(d)  == {j \in DOMAIN arima_dataset.rows :
                         arima_dataset.rows[j]["Date_of_publication"] = d}
        IN /\ \A i \in DOMAIN rows :
                LET d == rows[i]["Date_of_publication"] IN
                IF d <= LastDate
                THEN /\ "predicted_mean" \notin DOMAIN rows[i]
                     /\ IF d \in HistoryDates
                        THEN /\ metric \in DOMAIN rows[i]
                             /\ rows[i][metric] = Total(arima_dataset.rows, metric, at(d))
                        ELSE metric \notin DOMAIN rows[i]
                ELSE /\ metric \notin DOMAIN rows[i]
                     /\ "predicted_mean" \in DOMAIN rows[i]
                     /\ rows[i]["predicted_mean"]
                            = call.arg.model.points[d - LastDate].mean
           /\ \A i \in DOMAIN rows : i > 1 =>
                rows[i]["Date_of_publication"] = rows[i - 1]["Date_of_publication"] + 1

\* a prediction with a day that has data, a day that has none and a forecast
C10_Witness ==
    /\ PredictionReturned
    /\ \E i, j, k \in DOMAIN result.rows :
        /\ result.rows[i]["Date_of_publication"] \in HistoryDates
        /\ result.rows[i][call.arg.property_to_predict] > 0
        /\ result.rows[j]["Date_of_publication"] < LastDate
        /\ result.rows[j]["Date_of_publication"] \notin HistoryDates
        /\ result.rows[k]["Date_of_publication"] > LastDate

PredictionCalled ==
    /\ pc = "ready"
    /\ call # None
    /\ call.op = "get_prediction"

\* what a prediction is, from the data the model holds, the arguments and the
\* forecast of the fitted model alone
PredictionFrom(data, arg) ==
    LET metric  == arg.property_to_predict
        dates   == Range(DatesOf(data.rows))
        first   == CHOOSE d \in dates : \A e \in dates : d <= e
        last    == CHOOSE d \in dates : \A e \in dates : e <= d
        summed  == {c \in Columns(data) : data.dtype[c] = "number"}
        lo      == IF arg.from_date > first THEN arg.from_date ELSE first
        at(d)   == {j \in DOMAIN data.rows : data.rows[j]["Date_of_publication"] = d}
        row(d)  ==
            IF d > last
            THEN [c \in {"Date_of_publication", "predicted_mean",
                         "lower " \o metric, "upper " \o metric} |->
                    CASE c = "Date_of_publication" -> d
                      [] c = "predicted_mean" -> arg.model.points[d - last].mean
                      [] c = "lower " \o metric -> arg.model.points[d - last].lower
                      [] OTHER -> arg.model.points[d - last].upper]
            ELSE IF d \in dates
            THEN [c \in summed \cup {"Date_of_publication"} |->
                    IF c = "Date_of_publication" THEN d
                    ELSE Total(data.rows, c, at(d))]
            ELSE [c \in {"Date_of_publication"} |-> d]
        days    == Interval(lo, last + arg.days_to_forecast)
    IN [kind  |-> "DataFrame",
        index |-> "Date_of_publication",
        dtype |-> [c \in summed \cup {"predicted_mean", "lower " \o metric,
                                     "upper " \o metric} |-> "number"],
        rows  |-> [i \in DOMAIN days |-> row(days[i])]]

\* C11: no call on the built program changes the data the model holds, and
\* what get_prediction returns is determined by that data, its arguments and
\* the forecast of the fit alone: the same call gives the same result
\* whatever was called before it.
C11_PredictionStateless ==
    /\ [][pc = "ready" => arima_dataset' = arima_dataset]_vars
    /\ [](PredictionCalled =>
            IF call.arg.model.fitted
            THEN result = PredictionFrom(arima_dataset, call.arg)
            ELSE result.kind = "ValueError")

\* a prediction over data and forecast has returned after the selection of the
\* dashboard was set and a query answered
C11_Witness ==
    /\ PredictionReturned
    /\ selection.updated
    /\ call.arg.from_date <= LastDate
    /\ Len(result.rows) > call.arg.days_to_forecast

\* the build failed on one of the checks of the columns
ColumnCheckFailed ==
    /\ pc = "failed"
    /\ error.kind = "AttributeError"
    /\ error.msg \in {"Merge columns not present on infections and mortalities",
                      "Merge columns not present on hospital_admissions",
                      "No attribute Municipality_name", "No attribute Province",
                      "Columns to drop not in dataset",
                      "grouping columns not in dataset"}

\* C12: when the build fails on a check of the columns, both tables are
\* still as they were read (no row filled, dropped or summed) and there is
\* no covid dataset.
C12_ChecksPrecedeTransforms ==
    ColumnCheckFailed =>
        /\ infections_and_mortalities = raw.cases
        /\ hospital_admissions = raw.admissions
        /\ covid_dataset = None

BarplotReturned ==
    /\ pc = "ready"
    /\ call # None
    /\ call.op = "get_data_for_barplot"
    /\ selection.updated

\* two spellings of one name
SameName(a, b) ==
    \E S \in {{"Netherlands", "netherlands"}, {"All provinces", "all provinces"},
              {"Utrecht", "utrecht"}, {"Limburg", "limburg"}} : a \in S /\ b \in S

\* the result is the covid dataset's rows In, one row per tuple of values in
\* the columns of the list by, with the numeric columns summed
ScopedAs(In, by) ==
    LET df  == covid_dataset
        out == result.rows
        summed == {c \in Columns(df) \ Range(by) : df.dtype[c] = "number"}
        Members(j) == {i \in In : TupleOf(df.rows[i], by) = TupleOf(out[j], by)}
    IN /\ Columns(result) = Range(by) \cup summed
       /\ \A j \in DOMAIN out :
            /\ DOMAIN out[j] = Range(by) \cup summed
            /\ Members(j) # {}
            /\ \A c \in summed : out[j][c] = Total(df.rows, c, Members(j))
       /\ \A i \in In : \E j \in DOMAIN out :
            TupleOf(out[j], by) = TupleOf(df.rows[i], by)
       /\ \A i, j \in DOMAIN out :
            i # j => TupleOf(out[i], by) # TupleOf(out[j], by)

\* C13: get_data_for_barplot takes the rows of the selected year and then:
\* for 'Netherlands' in any letter case sums them per Year; for 'All
\* provinces' sums them per (Year, Province); for any other province keeps
\* the rows of that province and sums them per (Year, Province,
\* Municipality_name) if show_municipalities, else per (Year, Month) if
\* show_months, else per (Year, Province), which is one row when the
\* province has rows in that year.
C13_RegionScopeResolution ==
    BarplotReturned =>
        LET sel    == selection
            rows   == covid_dataset.rows
            InYear == {i \in DOMAIN rows :
                         dt_year(rows[i]["Date_of_publication"]) = sel.year}
            whole  == SameName(sel.province, "Netherlands")
            all    == SameName(sel.province, "All provinces")
            InProvince == {i \in InYear : SameName(rows[i]["Province"], sel.province)}
        IN /\ IsFrame(result)
           /\ whole => ScopedAs(InYear, <<"Year">>)
           /\ all => ScopedAs(InYear, <<"Year", "Province">>)
           /\ (~whole /\ ~all /\ sel.show_municipalities)
                => ScopedAs(InProvince, <<"Year", "Province", "Municipality_name">>)
           /\ (~whole /\ ~all /\ ~sel.show_municipalities /\ sel.show_months)
                => ScopedAs(InProvince, <<"Year", "Month">>)
           /\ (~whole /\ ~all /\ ~sel.show_municipalities /\ ~sel.show_months)
                => /\ ScopedAs(InProvince, <<"Year", "Province">>)
                   /\ InProvince # {} => Len(result.rows) = 1

\* the one row of utrecht in 2020, the sum of its two municipalities
C13_Witness ==
    /\ BarplotReturned
    /\ selection.province = "utrecht"
    /\ ~selection.show_municipalities /\ ~selection.show_months
    /\ Len(result.rows) = 1
    /\ result.rows[1]["Total_reported"] = 15
    /\ Len(covid_dataset.rows) = 2

TimeSeriesReturned ==
    /\ pc = "ready"
    /\ call # None
    /\ call.op = "get_covid_time_series"

\* C14: the time series has one row per calendar day from the first to the
\* last Date_of_publication of the covid dataset, in order; on a day with
\* rows in the dataset every metric is its sum over those rows, and on a day
\* without rows every metric is missing.
C14_DailySeriesComplete ==
    TimeSeriesReturned =>
        LET rows    == covid_dataset.rows
            dates   == Range(DatesOf(rows))
            first   == CHOOSE d \in dates : \A e \in dates : d <= e
            last    == CHOOSE d \in dates : \A e \in dates : e <= d
            metrics == {"Total_reported", "Deceased", "Hospital_admission"}
            at(d)   == {j \in DOMAIN rows : rows[j]["Date_of_publication"] = d}
        IN /\ IsFrame(result)
           /\ result.index = "Date_of_publication"
           /\ Columns(result) = metrics
           /\ DatesOf(result.rows) = Interval(first, last)
           /\ \A i \in DOMAIN result.rows :
                LET d == result.rows[i]["Date_of_publication"] IN
                IF at(d) = {}
                THEN DOMAIN result.rows[i] = {"Date_of_publication"}
                ELSE \A c \in metrics :
                        /\ c \in DOMAIN result.rows[i]
                        /\ result.rows[i][c] = Total(rows, c, at(d))

\* data on 2020-12-30 and on 2021-01-01: the series has the day between them
\* with nothing in it
C14_Witness ==
    /\ TimeSeriesReturned
    /\ Len(result.rows) = 3
    /\ result.rows[1]["Total_reported"] = 10
    /\ DOMAIN result.rows[2] = {"Date_of_publication"}
    /\ Has(result.rows[3], {"Total_reported"})

\* the raw case rows that have a date and a province
RawCounted ==
    {i \in DOMAIN raw.cases.rows :
        Has(raw.cases.rows[i], {"Date_of_publication", "Province"})}

\* C15: in the built covid dataset the sum of Total_reported, and of
\* Deceased, is the sum over the raw case rows that have a date and a
\* province, and the dataset has the rows of the cleaned case table, each
\* once and in their order, whatever the admissions are.
C15_BuildConservesCaseMetrics ==
    pc = "built" =>
        /\ \A c \in {"Total_reported", "Deceased"} :
            Total(covid_dataset.rows, c, DOMAIN covid_dataset.rows)
                = Total(raw.cases.rows, c, RawCounted)
        /\ Len(covid_dataset.rows) = Len(infections_and_mortalities.rows)
        /\ \A i \in DOMAIN covid_dataset.rows :
            \A c \in {"Province", "Municipality_name", "Total_reported", "Deceased"} :
                covid_dataset.rows[i][c] = infections_and_mortalities.rows[i][c]

\* a raw case row that is counted and one that is not, and two raw admission
\* rows of the day and municipality of a case row
C15_Witness ==
    /\ pc = "built"
    /\ Cardinality(RawCounted) >= 1
    /\ Cardinality(RawCounted) < Len(raw.cases.rows)
    /\ Len(raw.admissions.rows) = 2
    /\ raw.admissions.rows[1] = raw.admissions.rows[2]
    /\ \E i \in DOMAIN covid_dataset.rows : covid_dataset.rows[i]["Hospital_admission"] = 4

====
